---- MODULE Spec2Model ----
(***************************************************************************)
(* Model of security-framework/src/secure_transport.rs: an SslContext      *)
(* (the engine handle) is bound to a Connection<S> (the bridge owning the  *)
(* caller's transport), stepped through SSLHandshake, and then used as an  *)
(* SslStream (Session) or MidHandshakeSslStream (Suspended handshake).     *)
(*                                                                         *)
(* The native engine (SSLHandshake, SSLRead, SSLWrite, SSLClose) is an     *)
(* external collaborator: each engine call is modelled as an in-flight     *)
(* call (pc) during which the engine invokes read_func / write_func on the *)
(* bound Connection any number of times and then returns a status    *)
(* (and a processed-byte count) of its choosing.  The transport is the     *)
(* environment as well: every stream.read / stream.write answers Ok(n) or  *)
(* Err(kind).                                                              *)
(***************************************************************************)
EXTENDS Integers, Sequences, FiniteSets, TLC

\* ---------------------------------------------------------------- bounds
MaxOps == 1      \* resume / read / write calls the caller makes after handshake()
MaxBuf == 2      \* longest buffer handed to read / write / read_func / write_func
MaxId == 1       \* longest peer id handed to set_peer_id
MaxCiphers == 2  \* longest cipher list handed to set_enabled_ciphers
MaxCalls == 2    \* write calls, and read calls, made on a pair of Sessions

\* ------------------------------------------------------- status codes
errSecSuccess == "errSecSuccess"
errSecIO == "errSecIO"
errSecBadReq == "errSecBadReq"
errSSLProtocol == "errSSLProtocol"
errSSLWouldBlock == "errSSLWouldBlock"
errSSLClosedGraceful == "errSSLClosedGraceful"
errSSLClosedAbort == "errSSLClosedAbort"
errSSLClosedNoNotify == "errSSLClosedNoNotify"
errSSLPeerAuthCompleted == "errSSLPeerAuthCompleted"
errSSLClientCertRequested == "errSSLClientCertRequested"

\* Every OSStatus an engine call may return.
OSStatus ==
    { errSecSuccess, errSecIO, errSecBadReq, errSSLProtocol, errSSLWouldBlock,
      errSSLClosedGraceful, errSSLClosedAbort, errSSLClosedNoNotify,
      errSSLPeerAuthCompleted, errSSLClientCertRequested }

\* io::ErrorKind values a transport may fail with.
ErrorKind == { "NotFound", "ConnectionReset", "WouldBlock", "BrokenPipe", "Other" }

\* ------------------------------------------------------------ error values
\* Connection.err == None, and "no error" in a result.
NoErr == [src |-> "none", kind |-> "none", id |-> 0, code |-> "none"]

\* An io::Error produced by the transport; id tells such values apart.
IoError(kind, id) == [src |-> "transport", kind |-> kind, id |-> id, code |-> "none"]

\* base::Error::new(ret), the payload of HandshakeError::Failure.
ErrorNew(ret) == [src |-> "engine", kind |-> "none", id |-> 0, code |-> ret]

\* io::Error::new(io::ErrorKind::Other, Error::new(ret)).
IoErrorOther(ret) == [src |-> "engine", kind |-> "Other", id |-> 0, code |-> ret]

\* --------------------------------------------------- transport responses
\* What one stream.read / stream.write call answers: Ok(n) with n bytes on
\* offer, or Err(kind).
Ok(n) == [ok |-> TRUE, n |-> n, kind |-> "none"]
Err(kind) == [ok |-> FALSE, n |-> 0, kind |-> kind]

Min(a, b) == IF a < b THEN a ELSE b

\* The transport never transfers more than the slice it was given.
Transfer(resp, room) == IF resp.ok THEN Ok(Min(resp.n, room)) ELSE resp

\* Scripts: the answers the transport gives to the successive calls of one
\* upcall over a buffer of len bytes, up to and including its first
\* zero-length or error answer or the answer that fills the buffer; asked
\* again after the script's end, the transport transfers all it is offered.
Response(len) == { Ok(n) : n \in 0..len } \cup { Err(k) : k \in ErrorKind }

RECURSIVE Moved(_)
Moved(s) == IF s = << >> THEN 0 ELSE s[1].n + Moved(Tail(s))

RECURSIVE ScriptsOfLen(_, _)
ScriptsOfLen(len, k) ==
    IF k = 0 THEN { << >> }
    ELSE LET shorter == { s \in ScriptsOfLen(len, k - 1) :
                            /\ \A i \in 1..(k - 1) : s[i].ok /\ s[i].n > 0
                            /\ Moved(s) < len }
         IN  { Append(s, r) : s \in shorter, r \in Response(len) }

ScriptTable == [len \in 0..MaxBuf |-> UNION { ScriptsOfLen(len, k) : k \in 0..len }]
Script(len) == ScriptTable[len]

Answer(script, i) == IF i <= Len(script) THEN script[i] ELSE Ok(MaxBuf)

\* ------------------------------------------------------------- translate_err
translate_err_raw(kind) ==
    CASE kind = "NotFound" -> errSSLClosedGraceful
      [] kind = "ConnectionReset" -> errSSLClosedAbort
      [] kind = "WouldBlock" -> errSSLWouldBlock
      [] OTHER -> errSSLProtocol

translate_err_swapped(kind) ==
    CASE kind = "NotFound" -> errSSLClosedAbort
      [] kind = "ConnectionReset" -> errSSLClosedGraceful
      [] kind = "WouldBlock" -> errSSLWouldBlock
      [] OTHER -> errSecIO

translate_err(kind) ==
    CASE kind = "NotFound" -> errSSLClosedGraceful
      [] kind = "ConnectionReset" -> errSSLClosedAbort
      [] kind = "WouldBlock" -> errSSLWouldBlock
      [] OTHER -> errSecIO

\* --------------------------------------------------- read_func / write_func
\* The state of one fill/drain loop: start, ret, conn.err and the transport
\* calls made so far.
LoopState(start, ret, err, calls) ==
    [start |-> start, ret |-> ret, err |-> err, calls |-> calls]

RECURSIVE read_loop_drops_partial(_, _, _, _)
read_loop_drops_partial(len, script, errId, st) ==
    IF st.start < len
    THEN LET r == Transfer(Answer(script, Len(st.calls) + 1), len - st.start)
             calls == Append(st.calls, r)
         IN  IF r.ok /\ r.n = 0
             THEN LoopState(st.start, errSSLClosedNoNotify, st.err, calls)
             ELSE IF r.ok
             THEN read_loop_drops_partial(len, script, errId,
                            LoopState(st.start + r.n, st.ret, st.err, calls))
             ELSE LoopState(0, translate_err(r.kind), IoError(r.kind, errId), calls)
    ELSE st

RECURSIVE read_loop(_, _, _, _)
read_loop(len, script, errId, st) ==
    IF st.start < len
    THEN LET r == Transfer(Answer(script, Len(st.calls) + 1), len - st.start)
             calls == Append(st.calls, r)
         IN  IF r.ok /\ r.n = 0
             THEN LoopState(st.start, errSSLClosedNoNotify, st.err, calls)
             ELSE IF r.ok
             THEN read_loop(len, script, errId,
                            LoopState(st.start + r.n, st.ret, st.err, calls))
             ELSE LoopState(st.start, translate_err(r.kind),
                            IoError(r.kind, errId), calls)
    ELSE st

RECURSIVE write_loop(_, _, _, _)
write_loop(len, script, errId, st) ==
    IF st.start < len
    THEN LET r == Transfer(Answer(script, Len(st.calls) + 1), len - st.start)
             calls == Append(st.calls, r)
         IN  IF r.ok /\ r.n = 0
             THEN LoopState(st.start, errSSLClosedNoNotify, st.err, calls)
             ELSE IF r.ok
             THEN write_loop(len, script, errId,
                             LoopState(st.start + r.n, st.ret, st.err, calls))
             ELSE LoopState(st.start, translate_err(r.kind),
                            IoError(r.kind, errId), calls)
    ELSE st

\* ------------------------------------------------------ configuration values
Byte == { 0, 1 }

\* The sequences over S of at most n elements.
RECURSIVE SeqsUpTo(_, _)
SeqsUpTo(S, n) ==
    IF n = 0 THEN { << >> }
    ELSE LET shorter == SeqsUpTo(S, n - 1)
         IN  shorter \cup { Append(s, x) : s \in { t \in shorter : Len(t) = n - 1 },
                                            x \in S }

\* Option<T>.
None == [some |-> FALSE, v |-> << >>]
Some(v) == [some |-> TRUE, v |-> v]

\* cvt: an OSStatus as a Result<()>.
cvt(ret) ==
    IF ret = errSecSuccess THEN [kind |-> "Ok", err |-> NoErr]
    ELSE [kind |-> "Err", err |-> ErrorNew(ret)]

\* cipher_suite::CipherSuite and its conversions to and from the engine's
\* raw codes.
CipherSuite ==
    { "TLS_RSA_WITH_RC4_128_SHA", "TLS_RSA_WITH_AES_128_CBC_SHA",
      "TLS_RSA_WITH_AES_256_CBC_SHA" }

to_raw(c) ==
    CASE c = "TLS_RSA_WITH_RC4_128_SHA" -> 5
      [] c = "TLS_RSA_WITH_AES_128_CBC_SHA" -> 47
      [] c = "TLS_RSA_WITH_AES_256_CBC_SHA" -> 53

from_raw(raw) ==
    CASE raw = 5 -> Some("TLS_RSA_WITH_RC4_128_SHA")
      [] raw = 47 -> Some("TLS_RSA_WITH_AES_128_CBC_SHA")
      [] raw = 53 -> Some("TLS_RSA_WITH_AES_256_CBC_SHA")
      [] OTHER -> None

\* The raw codes the engine supports, in its order; a fresh engine has all of
\* them enabled.
SupportedCiphers == << 47, 53 >>

Range(s) == { s[i] : i \in 1..Len(s) }

\* ------------------------------------------------------------------ state
VARIABLES
    owner,        \* who holds the engine: "Ctx" (bare SslContext), "Stream" (the
                  \* SslStream local to handshake()), "Mid" (MidHandshakeSslStream),
                  \* "Session" (SslStream), "Gone" (everything dropped)
    pc,           \* the engine call in flight: "idle", "handshake", "resume",
                  \* "read", "write", "drop" (the SSLClose of Drop for SslStream)
    opNo,         \* engine calls started so far; the SSLHandshake of handshake()
                  \* is the first
    hsSteps,      \* SSLHandshake calls made by the latest handshake()/resume()
    connRef,      \* the engine's connection pointer is set (SSLSetConnection)
    connErr,      \* Connection.err
    allocs,       \* Connection boxes created (Box::into_raw)
    frees,        \* Connection boxes reclaimed (Box::from_raw dropped)
    streamDrops,  \* destructions of the transport value handed to handshake()
    opBuf,        \* buf.len() of the read / write in flight
    lastCb,       \* the latest upcall of the call in flight
    result,       \* what the latest completed call returned to the caller
    sslState,     \* the engine's session state, as SSLGetSessionState reports it
    teardown,     \* the run of Drop for SslStream: whose it is, the SSLClose
                  \* calls it made and what the last of them returned
    engineCfg,    \* the engine's configuration: its peer-id buffer and its
                  \* enabled cipher list
    lastSet,      \* the arguments of the caller's latest successful
                  \* set_peer_id / set_enabled_ciphers
    streamMutated,\* the caller changed the transport through get_mut
    rt            \* a pair of connected Sessions over a loopback transport:
                  \* the bytes to send, those the writer was told were
                  \* written, those in flight and those the reader was given

vars == << owner, pc, opNo, hsSteps, connRef, connErr, allocs, frees,
           streamDrops, opBuf, lastCb, result, sslState, teardown,
           engineCfg, lastSet, streamMutated, rt >>

\* What no engine call and no upcall touches: the configuration, the
\* caller's record of it, the caller's own use of the transport, and the
\* paired-session view.
sideVars == << engineCfg, lastSet, streamMutated, rt >>

NoTeardown == [who |-> "none", closeCalls |-> 0, closeRet |-> "none"]

\* The engine's session state machine: Idle until SSLHandshake is first
\* called, Handshake while the handshake is under way or suspended,
\* Connected once it succeeded, Aborted once it failed, Closed after SSLClose.
SessionStateAfter(call, ret, state) ==
    CASE call = "SSLHandshake" /\ ret = "called" -> "Handshake"
      [] call = "SSLHandshake" /\ ret = errSecSuccess -> "Connected"
      [] call = "SSLHandshake" /\ ret \in { errSSLPeerAuthCompleted,
                                            errSSLClientCertRequested,
                                            errSSLWouldBlock } -> "Handshake"
      [] call = "SSLHandshake" -> "Aborted"
      [] call = "SSLClose" /\ state = "Aborted" -> "Aborted"
      [] call = "SSLClose" -> "Closed"
      [] OTHER -> state

NoCb == [func |-> "none", len |-> 0, n |-> 0, ret |-> errSecSuccess,
         calls |-> << >>, err |-> NoErr, errId |-> 0]

\* What a configuration call adds to its result: the accessor it went
\* through, the session state it was told, whether it asked the engine for a
\* trust object, and the peer id or cipher list it returned.
NoCfg == [via |-> "none", state |-> "none", asked |-> FALSE, value |-> None,
          ciphers |-> None]

NoResult == [op |-> "none", status |-> errSecSuccess, kind |-> "none", buflen |-> 0,
             nproc |-> 0, n |-> 0, err |-> NoErr, pending |-> NoErr,
             steps |-> 0, opNo |-> 0, bound |-> FALSE, cfg |-> NoCfg]

\* A fresh engine: no peer id, every supported cipher enabled.
NoEngineCfg == [peerID |-> [null |-> TRUE, bytes |-> << >>],
                enabled |-> SupportedCiphers]

NoLastSet == [id |-> None, ciphers |-> None]

\* No pair of Sessions.
NoCall == [op |-> "none", kind |-> "none", n |-> 0, nproc |-> 0,
           status |-> errSecSuccess]

NoRt == [data |-> << >>, acked |-> 0, wire |-> << >>, got |-> << >>,
         writes |-> 0, reads |-> 0, last |-> NoCall]

Init ==
    /\ owner = "Ctx"
    /\ pc = "idle"
    /\ opNo = 0
    /\ hsSteps = 0
    /\ connRef = FALSE
    /\ connErr = NoErr
    /\ allocs = 0
    /\ frees = 0
    /\ streamDrops = 0
    /\ opBuf = 0
    /\ lastCb = NoCb
    /\ result = NoResult
    /\ sslState = "Idle"
    /\ teardown = NoTeardown
    /\ engineCfg = NoEngineCfg
    /\ lastSet = NoLastSet
    /\ streamMutated = FALSE
    /\ rt = NoRt

\* The id of an io::Error the transport raises now: the engine call it is
\* raised in.
ErrId == opNo

\* ------------------------------------------------------------- the upcalls
Upcall(func, len, st) ==
    /\ pc # "idle"
    /\ connRef
    /\ connErr' = st.err
    /\ lastCb' = [func |-> func, len |-> len, n |-> st.start, ret |-> st.ret,
                  calls |-> st.calls, err |-> st.err, errId |-> ErrId]
    /\ UNCHANGED << owner, pc, opNo, hsSteps, connRef, allocs, frees, streamDrops,
                    opBuf, result, sslState, teardown >>
    /\ UNCHANGED sideVars

read_func(len, script) ==
    Upcall("read", len,
           read_loop(len, script, ErrId, LoopState(0, errSecSuccess, connErr, << >>)))

write_func(len, script) ==
    Upcall("write", len,
           write_loop(len, script, ErrId, LoopState(0, errSecSuccess, connErr, << >>)))

\* ------------------------------------------------------ handshake outcomes
handshake_match(ret) ==
    CASE ret = errSecSuccess -> "Ready"
      [] ret = errSSLPeerAuthCompleted -> "ServerAuthCompleted"
      [] ret = errSSLClientCertRequested -> "ClientCertRequested"
      [] ret = errSSLWouldBlock -> "WouldBlock"
      [] OTHER -> "Failure"

mid_handshake_match_ready_on_would_block(ret) ==
    CASE ret = errSecSuccess -> "Ready"
      [] ret = errSSLPeerAuthCompleted -> "ServerAuthCompleted"
      [] ret = errSSLClientCertRequested -> "ClientCertRequested"
      [] ret = errSSLWouldBlock -> "Ready"
      [] OTHER -> "Failure"

mid_handshake_match_no_would_block(ret) ==
    CASE ret = errSecSuccess -> "Ready"
      [] ret = errSSLPeerAuthCompleted -> "ServerAuthCompleted"
      [] ret = errSSLClientCertRequested -> "ClientCertRequested"
      [] OTHER -> "Failure"

mid_handshake_match(ret) ==
    CASE ret = errSecSuccess -> "Ready"
      [] ret = errSSLPeerAuthCompleted -> "ServerAuthCompleted"
      [] ret = errSSLClientCertRequested -> "ClientCertRequested"
      [] ret = errSSLWouldBlock -> "WouldBlock"
      [] OTHER -> "Failure"

\* The value handshake() / resume() returns for SSLHandshake's status.
Outcome(op, kind, ret) ==
    [op |-> op, status |-> ret, kind |-> kind, buflen |-> 0, nproc |-> 0, n |-> 0,
     err |-> IF kind = "Failure" THEN ErrorNew(ret) ELSE NoErr,
     pending |-> connErr, steps |-> hsSteps, opNo |-> opNo, bound |-> connRef,
     cfg |-> NoCfg]

\* Where the engine and bridge go with an outcome: into the Session, into the
\* Suspended handshake, or (Failure) out of scope, which runs Drop for
\* SslStream and so starts its SSLClose.
Settle(kind) ==
    /\ owner' = CASE kind = "Ready" -> "Session"
                  [] kind = "Failure" -> "Stream"
                  [] OTHER -> "Mid"
    /\ pc' = IF kind = "Failure" THEN "drop" ELSE "idle"
    /\ opNo' = IF kind = "Failure" THEN opNo + 1 ELSE opNo
    /\ teardown' = IF kind = "Failure"
                   THEN [who |-> "Stream", closeCalls |-> teardown.closeCalls + 1,
                         closeRet |-> "none"]
                   ELSE teardown
    /\ lastCb' = NoCb

\* SslContext::handshake up to and including the call of SSLHandshake.
SslContext_handshake(iofRet, connRet) ==
    /\ owner = "Ctx"
    /\ pc = "idle"
    /\ IF iofRet # errSecSuccess
       THEN /\ result' = [Outcome("handshake", "Failure", iofRet) EXCEPT !.steps = 0]
            /\ owner' = "Gone"
            /\ streamDrops' = streamDrops + 1
            /\ UNCHANGED << pc, opNo, hsSteps, connRef, connErr, allocs, frees,
                            sslState >>
       ELSE IF connRet # errSecSuccess
       THEN /\ result' = [Outcome("handshake", "Failure", connRet) EXCEPT !.steps = 0]
            /\ owner' = "Gone"
            /\ allocs' = allocs + 1
            /\ frees' = frees + 1
            /\ streamDrops' = streamDrops + 1
            /\ UNCHANGED << pc, opNo, hsSteps, connRef, connErr, sslState >>
       ELSE /\ allocs' = allocs + 1
            /\ connRef' = TRUE
            /\ connErr' = NoErr
            /\ owner' = "Stream"
            /\ pc' = "handshake"
            /\ opNo' = opNo + 1
            /\ hsSteps' = 1
            /\ result' = NoResult
            /\ sslState' = SessionStateAfter("SSLHandshake", "called", sslState)
            /\ UNCHANGED << frees, streamDrops >>
    /\ UNCHANGED << opBuf, lastCb, teardown >>
    /\ UNCHANGED sideVars

\* SslContext::handshake from the return of SSLHandshake on.
SslContext_handshake_return(ret) ==
    /\ pc = "handshake"
    /\ result' = Outcome("handshake", handshake_match(ret), ret)
    /\ Settle(handshake_match(ret))
    /\ sslState' = IF handshake_match(ret) = "Failure"
                   THEN SessionStateAfter("SSLClose", "called",
                            SessionStateAfter("SSLHandshake", ret, sslState))
                   ELSE SessionStateAfter("SSLHandshake", ret, sslState)
    /\ UNCHANGED << hsSteps, connRef, connErr, allocs, frees, streamDrops, opBuf >>
    /\ UNCHANGED sideVars

\* MidHandshakeSslStream::handshake (resume) up to the call of SSLHandshake.
MidHandshakeSslStream_handshake ==
    /\ owner = "Mid"
    /\ pc = "idle"
    /\ opNo <= MaxOps
    /\ pc' = "resume"
    /\ opNo' = opNo + 1
    /\ hsSteps' = 1
    /\ result' = NoResult
    /\ UNCHANGED << owner, connRef, connErr, allocs, frees, streamDrops,
                    opBuf, lastCb, sslState, teardown >>
    /\ UNCHANGED sideVars

\* MidHandshakeSslStream::handshake from the return of SSLHandshake on.
MidHandshakeSslStream_handshake_return(ret) ==
    /\ pc = "resume"
    /\ result' = Outcome("resume", mid_handshake_match(ret), ret)
    /\ Settle(mid_handshake_match(ret))
    /\ sslState' = IF mid_handshake_match(ret) = "Failure"
                   THEN SessionStateAfter("SSLClose", "called",
                            SessionStateAfter("SSLHandshake", ret, sslState))
                   ELSE SessionStateAfter("SSLHandshake", ret, sslState)
    /\ UNCHANGED << hsSteps, connRef, connErr, allocs, frees, streamDrops, opBuf >>
    /\ UNCHANGED sideVars

\* ------------------------------------------------------------------ Session
\* SslStream::get_error on a Connection whose err slot holds `slot`: the error
\* returned, and what the slot holds afterwards (conn.err.take()).
get_error_keeps(slot, ret) ==
    IF slot # NoErr
    THEN [err |-> slot, slot |-> slot]
    ELSE [err |-> IoErrorOther(ret), slot |-> slot]

get_error(slot, ret) ==
    IF slot # NoErr
    THEN [err |-> slot, slot |-> NoErr]
    ELSE [err |-> IoErrorOther(ret), slot |-> slot]

read_match_abort_is_error(ret, nread, slot) ==
    CASE ret = errSecSuccess ->
             [kind |-> "Ok", n |-> nread, err |-> NoErr, slot |-> slot]
      [] ret \in { errSSLClosedGraceful, errSSLClosedNoNotify } ->
             [kind |-> "Ok", n |-> 0, err |-> NoErr, slot |-> slot]
      [] OTHER ->
             [kind |-> "Err", n |-> 0, err |-> get_error(slot, ret).err,
              slot |-> get_error(slot, ret).slot]

\* The match of Read for SslStream::read on SSLRead's status ret and its
\* processed count nread.
read_match(ret, nread, slot) ==
    CASE ret = errSecSuccess ->
             [kind |-> "Ok", n |-> nread, err |-> NoErr, slot |-> slot]
      [] ret \in { errSSLClosedGraceful, errSSLClosedAbort, errSSLClosedNoNotify } ->
             [kind |-> "Ok", n |-> 0, err |-> NoErr, slot |-> slot]
      [] OTHER ->
             [kind |-> "Err", n |-> 0, err |-> get_error(slot, ret).err,
              slot |-> get_error(slot, ret).slot]

\* The if of Write for SslStream::write on SSLWrite's status ret and its
\* processed count nwritten.
write_match(ret, nwritten, slot) ==
    IF ret = errSecSuccess
    THEN [kind |-> "Ok", n |-> nwritten, err |-> NoErr, slot |-> slot]
    ELSE [kind |-> "Err", n |-> 0, err |-> get_error(slot, ret).err,
          slot |-> get_error(slot, ret).slot]

\* Read / Write for SslStream up to the call of SSLRead / SSLWrite.
SessionCall(op, len) ==
    /\ owner = "Session"
    /\ pc = "idle"
    /\ opNo <= MaxOps
    /\ pc' = op
    /\ opNo' = opNo + 1
    /\ opBuf' = len
    /\ result' = NoResult
    /\ UNCHANGED << owner, hsSteps, connRef, connErr, allocs, frees,
                    streamDrops, lastCb, sslState, teardown >>
    /\ UNCHANGED sideVars

\* Read / Write for SslStream from the return of SSLRead / SSLWrite on.
SessionReturn(op, ret, nproc, m) ==
    /\ pc = op
    /\ result' = [op |-> op, status |-> ret, kind |-> m.kind, buflen |-> opBuf,
                  nproc |-> nproc, n |-> m.n, err |-> m.err, pending |-> connErr,
                  steps |-> 0, opNo |-> opNo, bound |-> connRef, cfg |-> NoCfg]
    /\ connErr' = m.slot
    /\ pc' = "idle"
    /\ opBuf' = 0
    /\ lastCb' = NoCb
    /\ UNCHANGED << owner, opNo, hsSteps, connRef, allocs, frees, streamDrops,
                    sslState, teardown >>
    /\ UNCHANGED sideVars

SslStream_read(len) == SessionCall("read", len)

SslStream_read_return(ret, nread) ==
    SessionReturn("read", ret, nread, read_match(ret, nread, connErr))

SslStream_write(len) == SessionCall("write", len)

SslStream_write_return(ret, nwritten) ==
    SessionReturn("write", ret, nwritten, write_match(ret, nwritten, connErr))

\* --------------------------------------------------------------------- Drop
\* Drop for SslStream up to the call of SSLClose; a MidHandshakeSslStream
\* drops the SslStream it wraps.
SslStream_drop ==
    /\ owner \in { "Session", "Mid" }
    /\ pc = "idle"
    /\ pc' = "drop"
    /\ opNo' = opNo + 1
    /\ result' = NoResult
    /\ sslState' = SessionStateAfter("SSLClose", "called", sslState)
    /\ teardown' = [who |-> owner, closeCalls |-> teardown.closeCalls + 1,
                    closeRet |-> "none"]
    /\ UNCHANGED << owner, hsSteps, connRef, connErr, allocs, frees,
                    streamDrops, opBuf, lastCb >>
    /\ UNCHANGED sideVars

SslStream_drop_return_leaks(ret) ==
    /\ pc = "drop"
    /\ connRef' = FALSE
    /\ connErr' = NoErr
    /\ owner' = "Gone"
    /\ pc' = "idle"
    /\ lastCb' = NoCb
    /\ teardown' = [teardown EXCEPT !.closeRet = ret]
    /\ UNCHANGED << opNo, hsSteps, allocs, frees, streamDrops, opBuf, result,
                    sslState >>
    /\ UNCHANGED sideVars

SslStream_drop_return_if_closed(ret) ==
    /\ pc = "drop"
    /\ frees' = IF ret = errSecSuccess THEN frees + 1 ELSE frees
    /\ streamDrops' = IF ret = errSecSuccess THEN streamDrops + 1 ELSE streamDrops
    /\ connRef' = FALSE
    /\ connErr' = NoErr
    /\ owner' = "Gone"
    /\ pc' = "idle"
    /\ lastCb' = NoCb
    /\ teardown' = [teardown EXCEPT !.closeRet = ret]
    /\ UNCHANGED << opNo, hsSteps, allocs, opBuf, result, sslState >>
    /\ UNCHANGED sideVars

\* Drop for SslStream from the return of SSLClose on: the status is ignored,
\* SSLGetConnection hands back the pointer SSLSetConnection stored and the
\* box behind it is dropped, the transport with it; then the SslContext goes.
SslStream_drop_return(ret) ==
    /\ pc = "drop"
    /\ frees' = frees + 1
    /\ streamDrops' = streamDrops + 1
    /\ connRef' = FALSE
    /\ connErr' = NoErr
    /\ owner' = "Gone"
    /\ pc' = "idle"
    /\ lastCb' = NoCb
    /\ teardown' = [teardown EXCEPT !.closeRet = ret]
    /\ UNCHANGED << opNo, hsSteps, allocs, opBuf, result, sslState >>
    /\ UNCHANGED sideVars

\* ------------------------------------------------------------ configuration
\* The borrow each accessor of MidHandshakeSslStream / SslStream hands out.
MidHandshakeSslStream_accessor_context_mut(acc) ==
    CASE acc = "get_ref" -> "shared"
      [] acc = "get_mut" -> "mut"
      [] acc = "context" -> "mut"
      [] acc = "mut_context" -> "mut"
      [] OTHER -> "none"

MidHandshakeSslStream_accessor(acc) ==
    CASE acc = "get_ref" -> "shared"
      [] acc = "get_mut" -> "mut"
      [] acc = "context" -> "shared"
      [] acc = "mut_context" -> "mut"
      [] OTHER -> "none"

SslStream_accessor(acc) ==
    CASE acc = "get_ref" -> "shared"
      [] acc = "get_mut" -> "mut"
      [] acc = "context" -> "shared"
      [] OTHER -> "none"

\* The borrow the caller gets through acc from the value it owns; a bare
\* SslContext is the caller's own ("self").
Borrow(acc) ==
    CASE owner = "Ctx" /\ acc = "self" -> "mut"
      [] owner = "Mid" -> MidHandshakeSslStream_accessor(acc)
      [] owner = "Session" -> SslStream_accessor(acc)
      [] OTHER -> "none"

\* The ways to an SslContext.
CtxAccessors == { "self", "context", "mut_context" }

\* The statuses a configuration call of the engine answers with.
ConfigStatus == { errSecSuccess, errSecIO }

\* The value a configuration call returns.
ConfigResult(op, acc, ret, r, state, asked, value) ==
    [NoResult EXCEPT !.op = op, !.status = ret, !.kind = r.kind, !.err = r.err,
                     !.opNo = opNo, !.bound = connRef,
                     !.cfg = [via |-> acc, state |-> state, asked |-> asked,
                              value |-> value, ciphers |-> None]]

\* A call on the SslContext reached through acc: &mut self or &self.
CtxCall(acc, needsMut) ==
    /\ pc = "idle"
    /\ acc \in CtxAccessors
    /\ Borrow(acc) \in (IF needsMut THEN { "mut" } ELSE { "shared", "mut" })

peer_id_match_never_none(ret, ptr, len) ==
    IF ret # errSecSuccess
    THEN [kind |-> "Err", err |-> ErrorNew(ret), value |-> None]
    ELSE [kind |-> "Ok", err |-> NoErr, value |-> Some(SubSeq(ptr.bytes, 1, len))]

\* SslContext::peer_id on what SSLGetPeerID answered: its status, and the
\* pointer and length it wrote.
peer_id_match(ret, ptr, len) ==
    IF ret # errSecSuccess
    THEN [kind |-> "Err", err |-> ErrorNew(ret), value |-> None]
    ELSE IF ptr.null
    THEN [kind |-> "Ok", err |-> NoErr, value |-> None]
    ELSE [kind |-> "Ok", err |-> NoErr, value |-> Some(SubSeq(ptr.bytes, 1, len))]

SslContext_peer_id(acc, ret) ==
    /\ CtxCall(acc, FALSE)
    /\ LET r == peer_id_match(ret, engineCfg.peerID, Len(engineCfg.peerID.bytes))
       IN  result' = ConfigResult("peer_id", acc, ret, r, "none", FALSE, r.value)
    /\ UNCHANGED << owner, pc, opNo, hsSteps, connRef, connErr, allocs, frees,
                    streamDrops, opBuf, lastCb, sslState, teardown >>
    /\ UNCHANGED sideVars

\* SslContext::set_peer_id: the engine, if it accepts, keeps a copy of the
\* peer_id.len() bytes at peer_id.as_ptr().
SslContext_set_peer_id(acc, id, ret) ==
    /\ CtxCall(acc, TRUE)
    /\ engineCfg' = IF ret = errSecSuccess
                    THEN [engineCfg EXCEPT !.peerID =
                              [null |-> FALSE, bytes |-> SubSeq(id, 1, Len(id))]]
                    ELSE engineCfg
    /\ lastSet' = IF ret = errSecSuccess
                  THEN [lastSet EXCEPT !.id = Some(id)]
                  ELSE lastSet
    /\ result' = ConfigResult("set_peer_id", acc, ret, cvt(ret), "none", FALSE, None)
    /\ UNCHANGED << owner, pc, opNo, hsSteps, connRef, connErr, allocs, frees,
                    streamDrops, opBuf, lastCb, sslState, teardown >>
    /\ UNCHANGED << streamMutated, rt >>

\* SslContext::enabled_ciphers on the statuses of SSLGetNumberEnabledCiphers
\* and SSLGetEnabledCiphers and the raw codes the latter wrote.
enabled_ciphers_match(numRet, getRet, raw) ==
    IF numRet # errSecSuccess
    THEN [kind |-> "Err", err |-> ErrorNew(numRet), status |-> numRet, value |-> None]
    ELSE IF getRet # errSecSuccess
    THEN [kind |-> "Err", err |-> ErrorNew(getRet), status |-> getRet, value |-> None]
    ELSE [kind |-> "Ok", err |-> NoErr, status |-> errSecSuccess,
          value |-> Some([i \in 1..Len(raw) |-> from_raw(raw[i]).v])]

SslContext_enabled_ciphers(acc, numRet, getRet) ==
    /\ CtxCall(acc, FALSE)
    /\ LET r == enabled_ciphers_match(numRet, getRet, engineCfg.enabled)
       IN  result' = [ConfigResult("enabled_ciphers", acc, r.status, r, "none",
                                   FALSE, None) EXCEPT !.cfg.ciphers = r.value]
    /\ UNCHANGED << owner, pc, opNo, hsSteps, connRef, connErr, allocs, frees,
                    streamDrops, opBuf, lastCb, sslState, teardown >>
    /\ UNCHANGED sideVars

set_enabled_ciphers_raw_short(ciphers) ==
    [i \in 1..(Len(ciphers) - 1) |-> to_raw(ciphers[i])]

\* The raw codes set_enabled_ciphers hands to SSLSetEnabledCiphers.
set_enabled_ciphers_raw(ciphers) ==
    [i \in 1..Len(ciphers) |-> to_raw(ciphers[i])]

\* SslContext::set_enabled_ciphers: the engine accepts no code it does not
\* support, and if it accepts, its enabled list is the list it was given.
SslContext_set_enabled_ciphers(acc, ciphers, ret) ==
    /\ CtxCall(acc, TRUE)
    /\ LET raw == set_enabled_ciphers_raw(ciphers)
       IN  /\ ~(Range(raw) \subseteq Range(SupportedCiphers)) => ret # errSecSuccess
           /\ engineCfg' = IF ret = errSecSuccess
                           THEN [engineCfg EXCEPT !.enabled = raw]
                           ELSE engineCfg
    /\ lastSet' = IF ret = errSecSuccess
                  THEN [lastSet EXCEPT !.ciphers = Some(ciphers)]
                  ELSE lastSet
    /\ result' = ConfigResult("set_enabled_ciphers", acc, ret, cvt(ret), "none",
                              FALSE, None)
    /\ UNCHANGED << owner, pc, opNo, hsSteps, connRef, connErr, allocs, frees,
                    streamDrops, opBuf, lastCb, sslState, teardown >>
    /\ UNCHANGED << streamMutated, rt >>

peer_trust_match_unchecked(stateRet, state, copyRet) ==
    IF stateRet # errSecSuccess
    THEN [kind |-> "Err", err |-> ErrorNew(stateRet), status |-> stateRet,
          asked |-> FALSE]
    ELSE IF copyRet # errSecSuccess
    THEN [kind |-> "Err", err |-> ErrorNew(copyRet), status |-> copyRet,
          asked |-> TRUE]
    ELSE [kind |-> "Ok", err |-> NoErr, status |-> errSecSuccess, asked |-> TRUE]

\* SslContext::peer_trust on the status of SSLGetSessionState, the state it
\* reported, and the status SSLCopyPeerTrust returns if it is called.
peer_trust_match(stateRet, state, copyRet) ==
    IF stateRet # errSecSuccess
    THEN [kind |-> "Err", err |-> ErrorNew(stateRet), status |-> stateRet,
          asked |-> FALSE]
    ELSE IF state = "Idle"
    THEN [kind |-> "Err", err |-> ErrorNew(errSecBadReq), status |-> errSecBadReq,
          asked |-> FALSE]
    ELSE IF copyRet # errSecSuccess
    THEN [kind |-> "Err", err |-> ErrorNew(copyRet), status |-> copyRet,
          asked |-> TRUE]
    ELSE [kind |-> "Ok", err |-> NoErr, status |-> errSecSuccess, asked |-> TRUE]

SslContext_peer_trust(acc, stateRet, copyRet) ==
    /\ CtxCall(acc, FALSE)
    /\ LET r == peer_trust_match(stateRet, sslState, copyRet)
       IN  result' = ConfigResult("peer_trust", acc, r.status, r,
                                  IF stateRet = errSecSuccess THEN sslState ELSE "none",
                                  r.asked, None)
    /\ UNCHANGED << owner, pc, opNo, hsSteps, connRef, connErr, allocs, frees,
                    streamDrops, opBuf, lastCb, sslState, teardown >>
    /\ UNCHANGED sideVars

\* get_mut of MidHandshakeSslStream / SslStream, and the caller's use of the
\* &mut S it hands out.
SslStream_get_mut ==
    /\ pc = "idle"
    /\ connRef
    /\ Borrow("get_mut") = "mut"
    /\ streamMutated' = TRUE
    /\ result' = ConfigResult("get_mut", "get_mut", errSecSuccess, cvt(errSecSuccess),
                              "none", FALSE, None)
    /\ UNCHANGED << owner, pc, opNo, hsSteps, connRef, connErr, allocs, frees,
                    streamDrops, opBuf, lastCb, sslState, teardown >>
    /\ UNCHANGED << engineCfg, lastSet, rt >>

\* --------------------------------------------------------- paired Sessions
\* Everything but the paired-session view.
engineVars == << owner, pc, opNo, hsSteps, connRef, connErr, allocs, frees,
                streamDrops, opBuf, lastCb, result, sslState, teardown,
                engineCfg, lastSet, streamMutated >>

\* Two connected Sessions over a loopback transport that may be
\* non-blocking.  The engines are lossless: the bytes SSLWrite processed at
\* one end are, in order, the bytes SSLRead processes at the other.  SSLWrite
\* reports success when it processed the whole buffer and would-block
\* otherwise; SSLRead reports success when it processed at least one byte
\* and would-block when it did not fill the buffer.
Pending == SubSeq(rt.data, rt.acked + 1, Len(rt.data))

\* The err slot at the return of an engine call: the transport's would-block
\* error when that is what stopped the engine.
LoopbackSlot(ret, id) ==
    IF ret = errSSLWouldBlock THEN IoError("WouldBlock", id) ELSE NoErr

\* write(buf) on the sending Session, buf being the first len bytes the
\* sender has not yet been told were written.
Loopback_write(len, ret, nwritten) ==
    /\ owner = "Session"
    /\ pc = "idle"
    /\ rt.writes < MaxCalls
    /\ len <= Len(Pending)
    /\ nwritten <= len
    /\ ret = errSecSuccess <=> nwritten = len
    /\ LET m == write_match(ret, nwritten, LoopbackSlot(ret, rt.writes + 1))
       IN  rt' = [rt EXCEPT !.wire = rt.wire \o SubSeq(Pending, 1, nwritten),
                            !.acked = rt.acked + m.n,
                            !.writes = rt.writes + 1,
                            !.last = [op |-> "write", kind |-> m.kind, n |-> m.n,
                                      nproc |-> nwritten, status |-> ret]]
    /\ UNCHANGED engineVars

\* read(buf) on the receiving Session with a buffer of len bytes; the
\* reader keeps the first n bytes of buf when told Ok(n).
Loopback_read(len, ret, nread) ==
    /\ owner = "Session"
    /\ pc = "idle"
    /\ rt.reads < MaxCalls
    /\ nread <= Min(len, Len(rt.wire))
    /\ ret = errSecSuccess => (nread > 0 \/ len = 0)
    /\ ret = errSSLWouldBlock => nread < len
    /\ LET m == read_match(ret, nread, LoopbackSlot(ret, rt.reads + 1))
       IN  rt' = [rt EXCEPT !.wire = SubSeq(rt.wire, nread + 1, Len(rt.wire)),
                            !.got = rt.got \o SubSeq(rt.wire, 1, m.n),
                            !.reads = rt.reads + 1,
                            !.last = [op |-> "read", kind |-> m.kind, n |-> m.n,
                                      nproc |-> nread, status |-> ret]]
    /\ UNCHANGED engineVars

\* ------------------------------------------------------------ specification
Binding == { errSecSuccess, errSecBadReq }

Next ==
    \/ \E i \in Binding, c \in Binding : SslContext_handshake(i, c)
    \/ \E ret \in OSStatus : SslContext_handshake_return(ret)
    \/ MidHandshakeSslStream_handshake
    \/ \E ret \in OSStatus : MidHandshakeSslStream_handshake_return(ret)
    \/ \E len \in 0..MaxBuf : SslStream_read(len)
    \/ \E ret \in OSStatus, n \in 0..MaxBuf : n <= opBuf /\ SslStream_read_return(ret, n)
    \/ \E len \in 0..MaxBuf : SslStream_write(len)
    \/ \E ret \in OSStatus, n \in 0..MaxBuf : n <= opBuf /\ SslStream_write_return(ret, n)
    \/ SslStream_drop
    \/ \E ret \in OSStatus : SslStream_drop_return(ret)
    \/ \E len \in 0..MaxBuf : \E script \in Script(len) : read_func(len, script)
    \/ \E len \in 0..MaxBuf : \E script \in Script(len) : write_func(len, script)

Spec == Init /\ [][Next]_vars

\* The configuration view: the calls on the SslContext, before the
\* handshake and through the accessors of what the handshake returned, and
\* the handshake steps themselves; the engine makes no upcall that touches
\* the configuration.
PeerIds == SeqsUpTo(Byte, MaxId)
CipherLists == SeqsUpTo(CipherSuite, MaxCiphers)

NextConfig ==
    \/ \E i \in Binding, c \in Binding : SslContext_handshake(i, c)
    \/ \E ret \in OSStatus : SslContext_handshake_return(ret)
    \/ MidHandshakeSslStream_handshake
    \/ \E ret \in OSStatus : MidHandshakeSslStream_handshake_return(ret)
    \/ SslStream_drop
    \/ \E ret \in OSStatus : SslStream_drop_return(ret)
    \/ \E acc \in CtxAccessors, ret \in ConfigStatus : SslContext_peer_id(acc, ret)
    \/ \E acc \in CtxAccessors, id \in PeerIds, ret \in ConfigStatus :
           SslContext_set_peer_id(acc, id, ret)
    \/ \E acc \in CtxAccessors, numRet \in ConfigStatus, getRet \in ConfigStatus :
           SslContext_enabled_ciphers(acc, numRet, getRet)
    \/ \E acc \in CtxAccessors, ciphers \in CipherLists, ret \in ConfigStatus :
           SslContext_set_enabled_ciphers(acc, ciphers, ret)
    \/ \E acc \in CtxAccessors, stateRet \in ConfigStatus, copyRet \in ConfigStatus :
           SslContext_peer_trust(acc, stateRet, copyRet)
    \/ SslStream_get_mut

SpecConfig == Init /\ [][NextConfig]_vars

\* The paired-session view: the state after a handshake that returned
\* Ready at both ends, some data to send, and the write and read calls.
InitLoopback ==
    /\ owner = "Session"
    /\ pc = "idle"
    /\ opNo = 1
    /\ hsSteps = 1
    /\ connRef = TRUE
    /\ connErr = NoErr
    /\ allocs = 1
    /\ frees = 0
    /\ streamDrops = 0
    /\ opBuf = 0
    /\ lastCb = NoCb
    /\ result = [NoResult EXCEPT !.op = "handshake", !.kind = "Ready", !.steps = 1,
                                 !.opNo = 1, !.bound = TRUE]
    /\ sslState = "Connected"
    /\ teardown = NoTeardown
    /\ engineCfg = NoEngineCfg
    /\ lastSet = NoLastSet
    /\ streamMutated = FALSE
    /\ rt \in { [NoRt EXCEPT !.data = d] : d \in SeqsUpTo(Byte, MaxBuf) }

NextLoopback ==
    \/ \E len \in 0..MaxBuf, ret \in { errSecSuccess, errSSLWouldBlock },
          n \in 0..MaxBuf : Loopback_write(len, ret, n)
    \/ \E len \in 0..MaxBuf, ret \in { errSecSuccess, errSSLWouldBlock },
          n \in 0..MaxBuf : Loopback_read(len, ret, n)

SpecLoopback == InitLoopback /\ [][NextLoopback]_vars

\* -------------------------------------------------------------------- claims
Closed == { errSSLClosedGraceful, errSSLClosedAbort, errSSLClosedNoNotify }
Suspensions == { "ServerAuthCompleted", "ClientCertRequested", "WouldBlock" }
LastCall == lastCb.calls[Len(lastCb.calls)]

\* C1: the Connection box holding the transport is reclaimed exactly once:
\* never more often than it was created, it is live for as long as a
\* Suspended handshake or a Session owns it, and once the owning value is
\* gone every box created has been reclaimed and the transport destroyed
\* exactly once.
C1_ResourceBalance ==
    /\ frees <= allocs
    /\ allocs <= 1
    /\ streamDrops <= 1
    /\ owner \in { "Stream", "Mid", "Session" } =>
           allocs = 1 /\ frees = 0 /\ streamDrops = 0
    /\ owner = "Gone" => frees = allocs /\ streamDrops = 1

\* A suspended handshake was resumed, failed, and its bridge reclaimed.
C1_Witness ==
    /\ owner = "Gone"
    /\ result.op = "resume"
    /\ result.kind = "Failure"
    /\ allocs = 1
    /\ frees = 1

\* The status-to-outcome mapping of one handshake step, as the claim states it.
OutcomeMapping ==
    /\ result.kind = "Ready" <=> result.status = errSecSuccess
    /\ result.kind = "ServerAuthCompleted" <=> result.status = errSSLPeerAuthCompleted
    /\ result.kind = "ClientCertRequested" <=> result.status = errSSLClientCertRequested
    /\ result.kind = "WouldBlock" <=> result.status = errSSLWouldBlock
    /\ result.kind = "Failure" <=>
           result.status \notin { errSecSuccess, errSSLPeerAuthCompleted,
                                  errSSLClientCertRequested, errSSLWouldBlock }
    /\ result.kind = "Failure" => result.err = ErrorNew(result.status)
    /\ result.kind = "Ready" => owner = "Session"
    /\ result.kind \in Suspensions => owner = "Mid"

\* C2 as stated: every handshake(transport) and every resume() maps the
\* status of its handshake step to the outcome, and makes exactly one
\* handshake step.
C2_OneStepPerCall ==
    result.op \in { "handshake", "resume" } => OutcomeMapping /\ result.steps = 1

\* C2 amended: the mapping holds for every handshake step made; resume()
\* and a handshake(transport) whose binding succeeded make exactly one step;
\* a handshake(transport) whose binding failed makes none and returns Failed
\* carrying the binding status.
C2_OutcomeMapping ==
    result.op \in { "handshake", "resume" } =>
        /\ result.steps = (IF result.bound THEN 1 ELSE 0)
        /\ result.op = "resume" => result.bound
        /\ result.bound => OutcomeMapping
        /\ ~result.bound =>
               /\ result.kind = "Failure"
               /\ result.status # errSecSuccess
               /\ result.err = ErrorNew(result.status)

\* A resume() returned WouldBlock after its one handshake step.
C2_Witness ==
    /\ result.op = "resume"
    /\ result.kind = "WouldBlock"
    /\ result.steps = 1
    /\ owner = "Mid"

\* C3: a handshake step, resume, read or write that failed with the coarse
\* status of a transport error raised during that very call surfaces that
\* transport error itself.
C3_TransportErrorVerbatim ==
    ( /\ result.op \in { "handshake", "resume", "read", "write" }
      /\ result.kind \in { "Failure", "Err" }
      /\ result.pending.src = "transport"
      /\ result.pending.id = result.opNo
      /\ result.status = translate_err(result.pending.kind) )
    => result.err = result.pending

\* A status on which read / write fail.
Failing(op, status) ==
    IF op = "read" THEN status \notin Closed \cup { errSecSuccess }
    ELSE status # errSecSuccess

\* C4: a read or write that got a failing status returns the captured error
\* when one is pending and empties the slot, and the generic engine error
\* wrapping the status only when none is pending.
C4_ErrorPrecedence ==
    (result.op \in { "read", "write" } /\ Failing(result.op, result.status)) =>
        /\ result.kind = "Err"
        /\ connErr = NoErr
        /\ result.pending # NoErr => result.err = result.pending
        /\ result.pending = NoErr => result.err = IoErrorOther(result.status)

\* A write failed while a transport error was pending.
C4_Witness ==
    /\ result.op = "write"
    /\ result.kind = "Err"
    /\ result.pending.src = "transport"
    /\ result.err = result.pending

\* C5: a read to which the engine reported one of the three close statuses
\* returns a successful zero-length result, whatever the slot holds.
C5_CloseIsEndOfStream ==
    (result.op = "read" /\ result.status \in Closed) =>
        result.kind = "Ok" /\ result.n = 0 /\ result.err = NoErr

\* An abrupt close was collapsed while a transport error was pending.
C5_Witness ==
    /\ result.op = "read"
    /\ result.status = errSSLClosedAbort
    /\ result.pending.src = "transport"
    /\ result.kind = "Ok"

\* C6: a read returns a successful zero-length result only when the engine
\* reported the stream closed.
C6_ZeroMeansClosed ==
    (result.op = "read" /\ result.kind = "Ok" /\ result.n = 0) =>
        result.status \in Closed

\* C7: a read or write in which the engine processed n > 0 bytes reports
\* those n bytes to the caller, whatever status the engine returned.
C7_NoBytesLost ==
    (result.op \in { "read", "write" } /\ result.nproc > 0) =>
        result.kind = "Ok" /\ result.n = result.nproc

\* C8: the byte count an upcall reports is the sum of what the transport
\* transferred in it, the status is success exactly when the whole buffer
\* was transferred, and the transport is not called again after its first
\* zero-length result or error.
C8_PartialProgress ==
    lastCb.func # "none" =>
        /\ lastCb.n = Moved(lastCb.calls)
        /\ lastCb.n <= lastCb.len
        /\ lastCb.ret = errSecSuccess <=> lastCb.n = lastCb.len
        /\ \A i \in 1..(Len(lastCb.calls) - 1) :
               lastCb.calls[i].ok /\ lastCb.calls[i].n > 0

\* A pull moved one byte of two and then hit a transport error.
C8_Witness ==
    /\ lastCb.func = "read"
    /\ lastCb.len = 2
    /\ lastCb.n = 1
    /\ Len(lastCb.calls) = 2
    /\ ~LastCall.ok

\* C9 as stated: every status an upcall returns is one of success,
\* closed-graceful, closed-abrupt, would-block, generic-io-error.
C9_FiveStatuses ==
    lastCb.func # "none" =>
        lastCb.ret \in { errSecSuccess, errSSLClosedGraceful, errSSLClosedAbort,
                         errSSLWouldBlock, errSecIO }

\* C9 amended: every status an upcall returns is one of those five or
\* closed-no-notify, which is returned exactly when the transport's last
\* answer was a zero-length transfer.
C9_StatusVocabulary ==
    lastCb.func # "none" =>
        /\ lastCb.ret \in { errSecSuccess, errSSLClosedGraceful, errSSLClosedAbort,
                            errSSLWouldBlock, errSecIO, errSSLClosedNoNotify }
        /\ lastCb.ret = errSSLClosedNoNotify <=>
               (lastCb.calls # << >> /\ LastCall.ok /\ LastCall.n = 0)

\* A push got a zero-length write and returned closed-no-notify.
C9_Witness ==
    /\ lastCb.func = "write"
    /\ lastCb.ret = errSSLClosedNoNotify

\* C10: an upcall in which the transport failed returns closed-graceful for
\* not-found, closed-abrupt for connection-reset, would-block for
\* would-block and generic-io-error for every other kind, and the failing
\* error sits in the Connection's err slot when the upcall returns.
C10_ErrorClassification ==
    (lastCb.func # "none" /\ lastCb.calls # << >> /\ ~LastCall.ok) =>
        /\ LastCall.kind = "NotFound" => lastCb.ret = errSSLClosedGraceful
        /\ LastCall.kind = "ConnectionReset" => lastCb.ret = errSSLClosedAbort
        /\ LastCall.kind = "WouldBlock" => lastCb.ret = errSSLWouldBlock
        /\ LastCall.kind \notin { "NotFound", "ConnectionReset", "WouldBlock" } =>
               lastCb.ret = errSecIO
        /\ connErr = IoError(LastCall.kind, opNo)

\* A push hit a connection reset while an older error sat in the slot.
C10_Witness ==
    /\ lastCb.func = "write"
    /\ lastCb.calls # << >>
    /\ LastCall.kind = "ConnectionReset"
    /\ lastCb.ret = errSSLClosedAbort
    /\ connErr.id = opNo
    /\ opNo > 1

\* C11: the teardown of a Session makes one SSLClose call while the bridge is
\* still bound and not reclaimed, and reclaims the bridge once that call
\* has returned, whatever it returned.
C11_TeardownOrder ==
    teardown.who = "Session" =>
        /\ teardown.closeCalls = 1
        /\ pc = "drop" =>
               /\ teardown.closeRet = "none"
               /\ connRef
               /\ frees = 0
               /\ streamDrops = 0
        /\ pc # "drop" =>
               /\ teardown.closeRet \in OSStatus
               /\ owner = "Gone"
               /\ frees = 1
               /\ streamDrops = 1

\* A Session was torn down, its close attempt failed, its bridge was reclaimed.
C11_Witness ==
    /\ teardown.who = "Session"
    /\ teardown.closeRet = errSecIO
    /\ owner = "Gone"
    /\ frees = 1

\* C12: dropping a Suspended handshake makes no engine call: no SSLClose is
\* called and no upcall on the transport happens during the drop.
C12_AbandonWithoutEngine ==
    teardown.who = "Mid" => teardown.closeCalls = 0 /\ lastCb.func = "none"

\* C14: SSLRead / SSLWrite are only ever in flight for a Session; a Suspended
\* handshake only ever has a resume or its drop in flight; and a Session
\* comes into being only in the step in which handshake() or resume()
\* returns Ready for a handshake step that reported success.
C14_NoPlaintextBeforeReady ==
    /\ [](pc \in { "read", "write" } => owner = "Session")
    /\ [](owner = "Mid" => pc \in { "idle", "resume", "drop" })
    /\ []((owner = "Session" /\ result.op \in { "handshake", "resume" }) =>
              result.status = errSecSuccess)
    /\ [][(owner' = "Session" /\ owner # "Session") =>
              /\ pc \in { "handshake", "resume" }
              /\ result'.kind = "Ready"
              /\ result'.status = errSecSuccess]_vars

\* A suspended handshake was resumed and the resume returned Ready: only
\* now is there a Session.
C14_Witness ==
    /\ owner = "Session"
    /\ result.op = "resume"
    /\ result.kind = "Ready"
    /\ result.status = errSecSuccess

\* C13: peer_trust() on an engine that reports the session state Idle fails
\* with Error::new(errSecBadReq) and does not call SSLCopyPeerTrust; an
\* engine whose handshake has not been started is Idle whatever was
\* configured on it, and peer_trust() on it fails without asking for a
\* trust object.
C13_IdlePeerTrust ==
    /\ owner = "Ctx" => sslState = "Idle"
    /\ (result.op = "peer_trust" /\ owner = "Ctx") =>
           result.kind = "Err" /\ ~result.cfg.asked
    /\ (result.op = "peer_trust" /\ result.cfg.state = "Idle") =>
           /\ result.kind = "Err"
           /\ result.err = ErrorNew(errSecBadReq)
           /\ ~result.cfg.asked

\* A peer id and a cipher list were set on a fresh engine, and peer_trust()
\* on it failed with the bad-request error.
C13_Witness ==
    /\ result.op = "peer_trust"
    /\ result.cfg.state = "Idle"
    /\ lastSet.id.some
    /\ lastSet.ciphers.some
    /\ result.err = ErrorNew(errSecBadReq)

\* C15 as stated: while a handshake is suspended and nothing is in flight,
\* neither the engine's configuration nor the transport changes.
C15_SuspendedReadOnly ==
    [][(owner = "Mid" /\ pc = "idle") => UNCHANGED << engineCfg, streamMutated >>]_vars

\* C15 amended: a Suspended handshake offers resume(), its drop, the shared
\* accessors and the mutable accessors get_mut() and mut_context(); while
\* it is suspended the engine's configuration changes only through
\* mut_context() and the transport only through get_mut(), and no call
\* through an accessor changes the binding, the err slot, the session
\* state, the handshake position or the resource counts.
C15_SuspendedCapabilities ==
    [][(owner = "Mid" /\ pc = "idle" /\ pc' = "idle") =>
           /\ owner' = "Mid"
           /\ UNCHANGED << connRef, connErr, allocs, frees, streamDrops, sslState,
                           hsSteps, opNo, teardown, lastCb >>
           /\ engineCfg' # engineCfg => result'.cfg.via = "mut_context"
           /\ streamMutated' # streamMutated => result'.op = "get_mut"]_vars

\* The transport was changed and then a peer id set through a Suspended
\* handshake.
C15_Witness ==
    /\ owner = "Mid"
    /\ pc = "idle"
    /\ streamMutated
    /\ result.op = "set_peer_id"
    /\ result.cfg.via = "mut_context"
    /\ result.kind = "Ok"

\* C18: what the reader of a pair of Sessions has been given is a prefix of
\* the bytes the writer set out to send, and is all of them once the writer
\* has been told all were written and none is in flight.
C18_RoundTrip ==
    /\ Len(rt.got) <= Len(rt.data)
    /\ rt.got = SubSeq(rt.data, 1, Len(rt.got))
    /\ (rt.acked = Len(rt.data) /\ rt.wire = << >>) => rt.got = rt.data

\* C19: enabled_ciphers(), when the engine answers it, returns the list of
\* the latest set_enabled_ciphers the engine accepted, in the same order.
C19_CipherRoundTrip ==
    (result.op = "enabled_ciphers" /\ result.status = errSecSuccess
         /\ lastSet.ciphers.some) =>
        result.kind = "Ok" /\ result.cfg.ciphers = lastSet.ciphers

\* The two supported suites were set in the reverse of the engine's order
\* and read back.
C19_Witness ==
    /\ result.op = "enabled_ciphers"
    /\ result.kind = "Ok"
    /\ lastSet.ciphers = Some(<< "TLS_RSA_WITH_AES_256_CBC_SHA",
                                 "TLS_RSA_WITH_AES_128_CBC_SHA" >>)
    /\ result.cfg.ciphers = lastSet.ciphers

\* C20: peer_id(), when the engine answers it, returns none if no
\* set_peer_id was accepted yet and otherwise exactly the bytes of the
\* latest set_peer_id the engine accepted.
C20_PeerIdRoundTrip ==
    (result.op = "peer_id" /\ result.status = errSecSuccess) =>
        result.kind = "Ok" /\ result.cfg.value = lastSet.id

\* A peer id was set and read back.
C20_Witness ==
    /\ result.op = "peer_id"
    /\ result.kind = "Ok"
    /\ lastSet.id = Some(<< 1 >>)
    /\ result.cfg.value = Some(<< 1 >>)

\* C21: a transport error that read or write returns was raised by the
\* transport during that same read or write call.
C21_NoStaleError ==
    (result.op \in { "read", "write" } /\ result.kind = "Err"
         /\ result.err.src = "transport") =>
        result.err.id = result.opNo

====
